---- MODULE Spec2Model ----
(***************************************************************************)
(* Model of the SOC dashboard server (alert ingestion, storage, live       *)
(* fan-out over socket.io, token/role gated REST endpoints).               *)
(*                                                                         *)
(* The server is one Node.js process: every handler runs to its next       *)
(* `await` without interleaving.  All database commands go through ONE     *)
(* mysql2 connection (`db`), which executes the commands it is given       *)
(* strictly in the order they were issued; the promise of a command        *)
(* settles when the command has run, and the awaiting handler resumes.     *)
(***************************************************************************)
EXTENDS Integers, Sequences, FiniteSets, TLC

(***************************************************************************)
(* Bounds of the model.                                                    *)
(***************************************************************************)
MaxTicks == 2        \* timer ticks of simulateRealTimeAlerts that are explored
MaxSockets == 2      \* connections (server-side sessions) made in one run

Clients == {"c1", "c2"}                 \* socket.io clients (browsers or others)
Roles == {"Administrator", "SOC Analyst", "SOC Manager"}
Severities == {"Critical", "High", "Medium", "Low", "Informational"}
Statuses == {"New", "Assigned", "In Progress", "Resolved", "False Positive"}

\* The severity drawn by a tick of the model (one of the five the code draws;
\* the store's startup rows carry another).
TickSeverities == {"Critical"}
\* The role names a client of the model sends in join-role.
JoinRoles == {"Administrator", "SOC Analyst"}

NoSocket == 0

\* What each client's socket.io handshake carries: c1 is a logged-in dashboard
\* (it holds a token), c2 is a bare socket.io client that holds none.
Handshake == [c \in Clients |-> IF c = "c1" THEN "token" ELSE "none"]

VARIABLES
  store,      \* table alerts: set of rows
  nextId,     \* AUTO_INCREMENT counter of table alerts
  dbQueue,    \* commands issued on the connection `db`, not yet executed
  nTicks,     \* number of timer ticks fired so far
  timerOn,    \* the setInterval timer of simulateRealTimeAlerts is armed
  tickPc,     \* per tick: position of its async callback
  tickCmds,   \* per tick: number of INSERT commands the callback has issued
  tickRow,    \* per tick: result.insertId of its insert (0: none)
  sid,        \* per client: its connected server-side socket (NoSocket: none)
  conns,      \* per client: number of connections it has made so far
  rooms,      \* per client: role rooms its current server-side socket is in
  outq,       \* per client: payloads emitted to its socket, not yet received
  received,   \* per client: new-alert events received, with the socket used
  pubLog,     \* history of io.emit calls: the payload, the sockets connected
              \* then, the connection counts then, other commands pending then
  req,        \* the REST request being served, or the last one answered
  now,        \* the database server's clock NOW(), in hours since startup
  incidents,  \* table incidents: set of rows
  incidentAlerts, \* table incident_alerts: set of links [incident_id, alert_id]
  boot,       \* position of startServer: generating sample data, or listening
  user,       \* AuthProvider state: the logged-in user (its role), or null
  cookies,    \* the browser's cookies soc-auth-token and soc-user-data
  authorization, \* axios.defaults.headers.common['Authorization']
  isLoading,  \* AuthProvider state: the session restore has not run yet
  loginPc,    \* LoginForm.handleSubmit: "idle", or "pending" on its await
  error,      \* LoginForm state: message of the last failed login ("": none)
  activeSection, \* DashboardContent state (null: no dashboard is mounted)
  mounted,    \* the mounted section component: its new-alert handler and the
              \* socket its last effect run saw in the context
  mounts,     \* number of handlers created so far (one per subscribing mount)
  socket,     \* SocketProvider state: the socket it stored, or null
  isConnected, \* SocketProvider state
  sockets,    \* per client socket made by io(): state, role, new-alert listeners
  joinq,      \* per client socket: join-role packets emitted, not yet received
  eventLog    \* new-alert events received by the page: the handlers invoked

vars == <<store, nextId, dbQueue, nTicks, timerOn, tickPc, tickCmds, tickRow,
          sid, conns, rooms, outq, received, pubLog, req, now,
          incidents, incidentAlerts, boot,
          user, cookies, authorization, isLoading, loginPc, error, activeSection,
          mounted, mounts, socket, isConnected, sockets, joinq, eventLog>>

dbVars == <<store, nextId, dbQueue>>
tickVars == <<nTicks, timerOn, tickPc, tickCmds, tickRow>>
sockVars == <<sid, conns, rooms, outq, received, pubLog>>
httpVars == <<req>>
incVars == <<incidents, incidentAlerts, boot>>
authVars == <<user, cookies, authorization, isLoading, loginPc, error>>
uiVars == <<activeSection, mounted, mounts, socket, isConnected, sockets, joinq, eventLog>>

TickIds == 1..MaxTicks

(***************************************************************************)
(* Text.  Column values and request parameters are strings; Chars gives    *)
(* the characters of the strings the model uses, for the operators of SQL  *)
(* that look inside a string (LIKE, the comparison of MAX).                *)
(***************************************************************************)
Chars ==
  [ s \in {"Port Scan", "Failed Login", "1.2.3.4", "4.3.2.1", "192.168.1.100",
           "Real-time ", " detected from ", "Scan", "2.3", "_", "%", "4%1", "",
           "Critical", "High", "Medium", "Low", "Informational"} |->
    CASE s = "Port Scan" -> <<"P", "o", "r", "t", " ", "S", "c", "a", "n">>
      [] s = "Failed Login" -> <<"F", "a", "i", "l", "e", "d", " ", "L", "o", "g", "i", "n">>
      [] s = "1.2.3.4" -> <<"1", ".", "2", ".", "3", ".", "4">>
      [] s = "4.3.2.1" -> <<"4", ".", "3", ".", "2", ".", "1">>
      [] s = "192.168.1.100" ->
           <<"1", "9", "2", ".", "1", "6", "8", ".", "1", ".", "1", "0", "0">>
      [] s = "Real-time " -> <<"R", "e", "a", "l", "-", "t", "i", "m", "e", " ">>
      [] s = " detected from " ->
           <<" ", "d", "e", "t", "e", "c", "t", "e", "d", " ", "f", "r", "o", "m", " ">>
      [] s = "Scan" -> <<"S", "c", "a", "n">>
      [] s = "2.3" -> <<"2", ".", "3">>
      [] s = "_" -> <<"_">>
      [] s = "%" -> <<"%">>
      [] s = "4%1" -> <<"4", "%", "1">>
      [] s = "" -> <<>>
      [] s = "Critical" -> <<"C", "r", "i", "t", "i", "c", "a", "l">>
      [] s = "High" -> <<"H", "i", "g", "h">>
      [] s = "Medium" -> <<"M", "e", "d", "i", "u", "m">>
      [] s = "Low" -> <<"L", "o", "w">>
      [] s = "Informational" ->
           <<"I", "n", "f", "o", "r", "m", "a", "t", "i", "o", "n", "a", "l">> ]

\* A template literal: the characters of its parts, one after the other.
RECURSIVE Text(_)
Text(parts) == IF parts = <<>> THEN <<>> ELSE Chars[Head(parts)] \o Text(Tail(parts))

\* expr LIKE pat: % matches any run of characters, _ any one character.
RECURSIVE Like(_, _)
Like(s, pat) ==
  IF pat = <<>> THEN s = <<>>
  ELSE IF Head(pat) = "%"
    THEN Like(s, Tail(pat)) \/ (s # <<>> /\ Like(Tail(s), pat))
  ELSE /\ s # <<>>
       /\ (Head(pat) = "_" \/ Head(pat) = Head(s))
       /\ Like(Tail(s), Tail(pat))

\* The parameter `%${value}%` the handler binds to a LIKE.
LikePattern(value) == <<"%">> \o Chars[value] \o <<"%">>

(***************************************************************************)
(* Table alerts.  id comes from AUTO_INCREMENT and created_at defaults to  *)
(* CURRENT_TIMESTAMP; the columns no query of the model reads (ports,      *)
(* protocol, raw_event, assigned_to, timestamps of updates) are left out.  *)
(***************************************************************************)
\* SQL NULL in a location column.
Null == "NULL"

\* Locations the generators draw from, and a row without a location.
Beijing == [country_code |-> "CN", city |-> "Beijing",
            latitude |-> "39.9042", longitude |-> "116.4074"]
Moscow == [country_code |-> "RU", city |-> "Moscow",
           latitude |-> "55.7558", longitude |-> "37.6176"]
NoLocation == [country_code |-> Null, city |-> Null, latitude |-> Null, longitude |-> Null]

\* A row: the columns named by the INSERT of a tick, with the given status,
\* creation time and location.  No INSERT of the server names resolved_at or
\* assigned_to: both get their default, NULL.
Alert(i, type, sev, src, st, t, loc) ==
  [id |-> i, alert_type |-> type, severity |-> sev, source_ip |-> src,
   destination_ip |-> "192.168.1.100",
   description |-> <<"Real-time ", type, " detected from ", src>>,
   status |-> st, created_at |-> t, resolved_at |-> Null, assigned_to |-> Null,
   country_code |-> loc.country_code, city |-> loc.city,
   latitude |-> loc.latitude, longitude |-> loc.longitude]

\* The row of the given severity and status that is created now.
AlertRow(i, sev, st) == Alert(i, "Port Scan", sev, "1.2.3.4", st, now, Beijing)

\* Rows the startup generator may have left in the table before listening.
SampleRows == { AlertRow(1, "High", "Resolved") }

\* Table incidents: a row as the startup generator inserts it (alert_count is
\* Math.floor(Math.random() * 10) + 1).
Incident(i, sev, st, n) == [id |-> i, severity |-> sev, status |-> st, alert_count |-> n]
\* The values of alert_count the model draws, of 1..10.
AlertCounts == {1, 10}
\* Incidents the startup generator may have left in the table before listening.
SampleIncidents == { Incident(1, "High", "New", 10) }

\* SELECT * FROM alerts WHERE id = ?
SelectById(i) == { a \in store : a.id = i }

\* created_at >= DATE_SUB(NOW(), INTERVAL h HOUR)
InWindow(a, h) == a.created_at >= now - h

\* A request parameter that is absent ("" for the textual ones).
NoTimeRange == -1

\* GET /api/alerts: the filter of a request.
NoFilter ==
  [severity |-> "", status |-> "", alertType |-> "", sourceIp |-> "",
   destinationIp |-> "", timeRange |-> NoTimeRange, search |-> ""]
\* The WHERE clause the handler builds: 1=1 AND one condition per parameter given.
Matches(a, f) ==
  /\ (f.severity # "" => a.severity = f.severity)
  /\ (f.status # "" => a.status = f.status)
  /\ (f.alertType # "" => a.alert_type = f.alertType)
  /\ (f.sourceIp # "" => Like(Chars[a.source_ip], LikePattern(f.sourceIp)))
  /\ (f.destinationIp # "" => Like(Chars[a.destination_ip], LikePattern(f.destinationIp)))
  /\ (f.timeRange # NoTimeRange => InWindow(a, f.timeRange))
  /\ (f.search # "" =>
        \/ Like(Chars[a.alert_type], LikePattern(f.search))
        \/ Like(Text(a.description), LikePattern(f.search))
        \/ Like(Chars[a.source_ip], LikePattern(f.search)))
\* The rows the filtered statements range over, and the count statement.
WhereAlerts(f) == { a \in store : Matches(a, f) }
CountAlerts(f) == Cardinality(WhereAlerts(f))

\* Commands on the connection: op, the tick that awaits it (0: a request), argument.
InsertCmd(t, sev) == [op |-> "INSERT", tick |-> t, arg |-> sev]
SelectCmd(t, i) == [op |-> "SELECT", tick |-> t, arg |-> i]
QueryCmd(e) == [op |-> "QUERY", tick |-> 0, arg |-> e]

(***************************************************************************)
(* REST requests: tokens, the Authorization header and the middleware.     *)
(***************************************************************************)
Token(sig, expired, role) == [sig |-> sig, expired |-> expired, role |-> role]
\* The value of an absent header part (JavaScript undefined).
Undefined == Token("undefined", FALSE, "none")

\* Tokens a request may carry: the server's own for each role, a forged one
\* (signed with another key) and an expired one.
Tokens ==
  { Token("server", FALSE, r) : r \in Roles }
    \cup { Token("other", FALSE, "Administrator"), Token("server", TRUE, "Administrator") }

\* The Authorization header as its words (split on ' '); <<>>: no header.
Headers == { <<>>, <<"Bearer">> } \cup { <<"Bearer", t>> : t \in Tokens }

Endpoints ==
  { "overview", "alerts", "geographic", "incidents", "assets", "playbooks",
    "compliance", "users", "timeline" }

\* jwt.verify(token, JWT_SECRET): signature and expiry.
jwtVerify(t) == t.sig = "server" /\ ~t.expired

\* authenticateToken: the status it answers with (0: it calls next()) and req.user.
authenticateToken(h) ==
  LET token == IF Len(h) >= 2 THEN h[2] ELSE Undefined
  IN IF token = Undefined THEN [status |-> 401, user |-> "none"]
     ELSE IF ~jwtVerify(token) THEN [status |-> 403, user |-> "none"]
     ELSE [status |-> 0, user |-> token.role]

\* Mutant: the role gate lets every authenticated principal through.
requireRoleAnyRole(roles, role) == role \in Roles

\* requireRole(roles): roles.includes(req.user.role).
requireRole(roles, role) == role \in roles

\* The roles a route demands (Roles: the route has no requireRole middleware).
RouteRoles(e) == IF e = "users" THEN {"Administrator"} ELSE Roles

\* Number of statements a handler awaits, one after the other.
Statements(e) == IF e = "overview" THEN 7 ELSE IF e = "alerts" THEN 2 ELSE 1

(***************************************************************************)
(* The statements of the query handlers, as functions of the table and of  *)
(* NOW() at the moment the statement runs.  A statement whose result the   *)
(* SQL leaves open (rows that tie under its ORDER BY) has several possible *)
(* results.                                                                *)
(***************************************************************************)
Max(S) == CHOOSE x \in S : \A y \in S : y <= x
Min(S) == CHOOSE x \in S : \A y \in S : x <= y

\* Every sequence that lists each element of S once.
RECURSIVE Perms(_)
Perms(S) ==
  IF S = {} THEN { <<>> }
  ELSE UNION { { <<x>> \o rest : rest \in Perms(S \ {x}) } : x \in S }

\* K is a set of [key, val] with lo <= key <= hi: the sequences of its vals
\* in which the keys never increase.  Rows of equal key come in any order.
RECURSIVE OrderBetween(_, _, _)
OrderBetween(K, lo, hi) ==
  IF K = {} THEN { <<>> }
  ELSE IF lo = hi THEN Perms({ k.val : k \in K })
  ELSE LET mid == (lo + hi) \div 2
           upper == OrderBetween({ k \in K : k.key > mid }, mid + 1, hi)
           lower == OrderBetween({ k \in K : k.key <= mid }, lo, mid)
       IN { u \o l : u \in upper, l \in lower }

\* ORDER BY key DESC: SQL leaves the order of rows with equal keys open.
OrderByDesc(K) ==
  IF K = {} THEN { <<>> }
  ELSE LET keys == { k.key : k \in K } IN OrderBetween(K, Min(keys), Max(keys))

\* LIMIT n OFFSET o of an ordered result.
LimitOffset(rows, n, o) ==
  IF o >= Len(rows) THEN <<>> ELSE SubSeq(rows, o + 1, Min({o + n, Len(rows)}))

\* SELECT COUNT(*) ... WHERE created_at >= DATE_SUB(NOW(), INTERVAL h HOUR)
CountSince(h) == Cardinality({ a \in store : InWindow(a, h) })

\* SELECT severity, COUNT(*) ... last 24 hours ... GROUP BY severity
SeverityBreakdown ==
  LET rows == { a \in store : InWindow(a, 24) }
  IN { [severity |-> sev, count |-> Cardinality({ a \in rows : a.severity = sev })] :
       sev \in { a.severity : a \in rows } }

\* SELECT alert_type, COUNT(*) as count ... last 7 days ... GROUP BY alert_type
\* ORDER BY count DESC LIMIT 5
TopLimit == 5
TopAlertTypes ==
  LET rows == { a \in store : InWindow(a, 7 * 24) }
      groups == { [alert_type |-> ty, count |-> Cardinality({ a \in rows : a.alert_type = ty })] :
                  ty \in { a.alert_type : a \in rows } }
  IN { LimitOffset(ord, TopLimit, 0) :
       ord \in OrderByDesc({ [key |-> g.count, val |-> g] : g \in groups }) }

\* SELECT COUNT(*) ... WHERE severity IN ('Critical','High') AND created in the last hour
CriticalAlerts ==
  Cardinality({ a \in store : a.severity \in {"Critical", "High"} /\ InWindow(a, 1) })

\* Mutant: Red from ten alerts on.
ThreatLevelRedAtTen(count) ==
  IF count >= 10 THEN "Red" ELSE IF count > 5 THEN "Yellow" ELSE "Green"

\* Mutant: Yellow only strictly between five and ten.
ThreatLevelYellowBand(count) ==
  IF count > 10 THEN "Red" ELSE IF count > 5 /\ count < 10 THEN "Yellow" ELSE "Green"

\* let threatLevel = 'Green'; if (count > 10) 'Red'; else if (count > 5) 'Yellow'
ThreatLevel(count) ==
  IF count > 10 THEN "Red" ELSE IF count > 5 THEN "Yellow" ELSE "Green"

\* The collation's order of characters (the space, then the letters,
\* case-insensitive).
Letters == <<"a", "b", "c", "d", "e", "f", "g", "h", "i", "j", "k", "l", "m",
             "n", "o", "p", "q", "r", "s", "t", "u", "v", "w", "x", "y", "z">>
Capitals == <<"A", "B", "C", "D", "E", "F", "G", "H", "I", "J", "K", "L", "M",
              "N", "O", "P", "Q", "R", "S", "T", "U", "V", "W", "X", "Y", "Z">>
Weight(ch) ==
  IF ch = " " THEN 0 ELSE CHOOSE i \in 1..26 : Letters[i] = ch \/ Capitals[i] = ch

\* s <= t as strings: the first character that differs decides.
RECURSIVE StringLeq(_, _)
StringLeq(s, t) ==
  IF s = <<>> THEN TRUE
  ELSE IF t = <<>> THEN FALSE
  ELSE IF Weight(Head(s)) = Weight(Head(t)) THEN StringLeq(Tail(s), Tail(t))
  ELSE Weight(Head(s)) < Weight(Head(t))

\* MAX(severity): MAX over an ENUM column compares the values as strings.
MaxSeverity(sevs) == CHOOSE m \in sevs : \A x \in sevs : StringLeq(Chars[x], Chars[m])

\* SELECT country_code, city, latitude, longitude, COUNT(*), MAX(severity),
\* MAX(created_at) ... WHERE latitude, longitude NOT NULL, last 24 hours
\* GROUP BY country_code, city, latitude, longitude
GeoKey(a) == <<a.country_code, a.city, a.latitude, a.longitude>>
\* Mutant: the clusters range over located alerts of any age.
GeoRowsAnyAge == { a \in store : a.latitude # Null /\ a.longitude # Null }


GeoRows == { a \in store : a.latitude # Null /\ a.longitude # Null /\ InWindow(a, 24) }
GeoData ==
  { LET group == { a \in GeoRows : GeoKey(a) = k }
    IN [country_code |-> k[1], city |-> k[2], latitude |-> k[3], longitude |-> k[4],
        alert_count |-> Cardinality(group),
        max_severity |-> MaxSeverity({ a.severity : a \in group }),
        latest_alert |-> Max({ a.created_at : a \in group })] :
    k \in { GeoKey(a) : a \in GeoRows } }

\* The query string of a request to /api/alerts, after parseInt of page and limit.
Query(f, page, limit) == [filter |-> f, page |-> page, limit |-> limit]
\* No parameter given: page = 1, limit = 50.
DefaultQuery == Query(NoFilter, 1, 50)

\* SELECT * FROM alerts WHERE ... ORDER BY created_at DESC LIMIT ? OFFSET ?
SelectAlerts(q) ==
  { LimitOffset(ord, q.limit, (q.page - 1) * q.limit) :
    ord \in OrderByDesc({ [key |-> a.created_at, val |-> a] : a \in WhereAlerts(q.filter) }) }

\* Math.ceil(total / limit)
Ceil(total, limit) == (total + limit - 1) \div limit

\* The possible results of statement k of the handler of endpoint e.
StatementResults(e, k, q) ==
  CASE e = "alerts" /\ k = 1 -> { CountAlerts(q.filter) }
    [] e = "alerts" /\ k = 2 -> SelectAlerts(q)
    [] e = "overview" /\ k = 1 -> { CountSince(24) }
    [] e = "overview" /\ k = 2 -> { CountSince(7 * 24) }
    [] e = "overview" /\ k = 3 -> { CountSince(30 * 24) }
    [] e = "overview" /\ k = 4 -> { SeverityBreakdown }
    [] e = "overview" /\ k = 6 -> TopAlertTypes
    [] e = "overview" /\ k = 7 -> { CriticalAlerts }
    [] e = "geographic" -> { GeoData }
    [] OTHER -> { "rows" }

\* res.json(...): the body the handler builds from its statements' results.
Body(e, q, results) ==
  CASE e = "alerts" ->
         [alerts |-> results[2],
          pagination |-> [page |-> q.page, limit |-> q.limit, total |-> results[1],
                          pages |-> Ceil(results[1], q.limit)]]
    [] e = "overview" ->
         [metrics |-> [alerts24h |-> results[1], alerts7d |-> results[2],
                       alerts30d |-> results[3],
                       threatLevel |-> ThreatLevel(results[7])],
          severityBreakdown |-> results[4], incidentStatus |-> results[5],
          topAlertTypes |-> results[6]]
    [] OTHER -> results[1]

NoRequest ==
  [endpoint |-> "none", header |-> <<>>, user |-> "none", pc |-> "none",
   step |-> 0, status |-> 0, sent |-> "nothing", handlerRan |-> FALSE, issued |-> 0,
   query |-> DefaultQuery, results |-> <<>>, body |-> "nothing"]

(***************************************************************************)
(* The dashboard page: AuthProvider, LoginForm, SocketProvider and         *)
(* DashboardContent.  A user is written as its role.  React runs the       *)
(* render and the effects that a state change causes before the page       *)
(* handles its next event, so each action below is a handler followed by   *)
(* the commit it causes: effects of a child before those of its parent.    *)
(***************************************************************************)
\* JavaScript null; an absent cookie: Cookies.get gives undefined for it.
null == "null"
NoText == <<>>

\* Handlers the section components may create, and events the page may receive.
HandlerIds == 1..4
AlertEvents == 1..2

\* JSON.stringify of a user object, and JSON.parse of a cookie's text.
JsonStringify(u) == <<"{", u, "}">>

JsonParse(text) ==
  IF Len(text) = 3 /\ text[1] = "{" /\ text[3] = "}" THEN text[2]
  ELSE IF text = <<"null">> THEN null
  ELSE "SyntaxError"

NoCookies == [token |-> Undefined, userData |-> NoText]

\* The cookies login stores for the user the server has authenticated.
SessionCookies(u) == [token |-> Token("server", FALSE, u), userData |-> JsonStringify(u)]

\* Cookies the browser may hold when the page loads: none, those of an earlier
\* login, user data that is no JSON, user data alone, and the JSON text null.
InitialCookies ==
  { NoCookies,
    SessionCookies("SOC Analyst"),
    [SessionCookies("Administrator") EXCEPT !.userData = <<"{">>],
    [SessionCookies("SOC Manager") EXCEPT !.token = Undefined],
    [SessionCookies("SOC Analyst") EXCEPT !.userData = <<"null">>] }

\* `Bearer ${token}`, as the words of the header.
Bearer(token) == <<"Bearer", token>>

isAuthenticated == user # null

\* hasRole(roles): user ? roles.includes(user.role) : false.
hasRole(roles) == IF user # null THEN user \in roles ELSE FALSE

\* navigationItems of the Sidebar: id and roles (NoRoles: the item has none).
NoRoles == {}

navigationItems ==
  << [id |-> "overview", roles |-> NoRoles],
     [id |-> "monitoring", roles |-> NoRoles],
     [id |-> "incidents", roles |-> NoRoles],
     [id |-> "analytics", roles |-> NoRoles],
     [id |-> "assets", roles |-> NoRoles],
     [id |-> "playbooks", roles |-> NoRoles],
     [id |-> "compliance", roles |-> NoRoles],
     [id |-> "threat-intel", roles |-> NoRoles],
     [id |-> "users", roles |-> {"Administrator"}],
     [id |-> "settings", roles |-> {"Administrator", "SOC Manager"}] >>

\* The items the Sidebar renders a button for.
filteredItems ==
  { navigationItems[i].id : i \in { j \in DOMAIN navigationItems :
      navigationItems[j].roles = NoRoles \/ hasRole(navigationItems[j].roles) } }

\* renderContent(): the element rendered for a section ("none": no dashboard).
renderContent(section) ==
  CASE section = null -> "none"
    [] section = "monitoring" -> "ThreatMonitoring"
    [] section \in {"incidents", "playbooks"} -> "IncidentResponse"
    [] section \in {"analytics", "assets", "compliance", "threat-intel"} -> "SecurityAnalytics"
    [] section = "users" -> "User Management"
    [] section = "settings" -> "System Settings"
    [] OTHER -> "Overview"

\* The Sidebar buttons clicked while the live connection is observed.
LiveItems == {"overview", "monitoring", "incidents"}

\* The components whose mount effect calls subscribeToAlerts.
Subscribing == {"Overview", "ThreatMonitoring"}

\* A client socket io() has not made yet, and the states of one it has made.
NoClientSocket == [state |-> "unused", role |-> null, listeners |-> <<>>]
OpenStates == {"opening", "backoff", "connected"}
OpenSockets == { c \in Clients : sockets[c].state \in OpenStates }

\* The client socket the next call of io() makes.
NewSocket == IF sockets["c1"].state = "unused" THEN "c1" ELSE "c2"

\* socket.on('new-alert', h) and socket.off('new-alert', h) on the socket table:
\* on appends a listener, off removes the first listener equal to h.
On(S, c, h) == [S EXCEPT ![c].listeners = Append(@, h)]

Off(S, c, h) ==
  LET ls == S[c].listeners
      at == { i \in DOMAIN ls : ls[i] = h }
  IN IF at = {} THEN S
     ELSE LET i == CHOOSE j \in at : \A k \in at : j <= k
          IN [S EXCEPT ![c].listeners = SubSeq(ls, 1, i - 1) \o SubSeq(ls, i + 1, Len(ls))]

\* subscribeToAlerts and unsubscribeFromAlerts of the render in which the
\* provider's state `socket` had the value sock.
subscribeToAlerts(S, sock, callback) == IF sock # null THEN On(S, sock, callback) ELSE S

unsubscribeFromAlerts(S, sock, callback) == IF sock # null THEN Off(S, sock, callback) ELSE S

\* No subscribing component is mounted.
NoComponent == [handler |-> 0, sock |-> null]

\* Cleanup of the mounted section component's effect: ThreatMonitoring
\* unsubscribes with the function its effect captured, Overview does nothing.
Cleanup(S) ==
  IF renderContent(activeSection) = "ThreatMonitoring"
    THEN unsubscribeFromAlerts(S, mounted.sock, mounted.handler)
    ELSE S

\* A render of the provider with `socket` unchanged: the functions in the
\* context are new, so ThreatMonitoring's effect is cleaned up and runs again.
Rerendered(S) ==
  IF renderContent(activeSection) = "ThreatMonitoring"
    THEN subscribeToAlerts(Cleanup(S), socket, mounted.handler)
    ELSE S

\* The page as the browser has loaded it, before AuthProvider's effect.
Page(ck) ==
  /\ user = null
  /\ cookies = ck
  /\ authorization = <<>>
  /\ isLoading = TRUE
  /\ loginPc = "idle"
  /\ error = ""
  /\ activeSection = null
  /\ mounted = NoComponent
  /\ mounts = 0
  /\ socket = null
  /\ isConnected = FALSE
  /\ sockets = [c \in Clients |-> NoClientSocket]
  /\ joinq = [c \in Clients |-> <<>>]
  /\ eventLog = <<>>

\* Connections made so far, over all clients.
TotalConns == conns["c1"] + conns["c2"]

Connected == { c \in Clients : sid[c] # NoSocket }

\* The server before its first tick, connection and request.
Listening ==
  /\ now = 0
  /\ dbQueue = <<>>
  /\ nTicks = 0
  /\ timerOn = TRUE
  /\ tickPc = [t \in TickIds |-> "idle"]
  /\ tickCmds = [t \in TickIds |-> 0]
  /\ tickRow = [t \in TickIds |-> 0]
  /\ sid = [c \in Clients |-> NoSocket]
  /\ conns = [c \in Clients |-> 0]
  /\ rooms = [c \in Clients |-> {}]
  /\ outq = [c \in Clients |-> <<>>]
  /\ received = [c \in Clients |-> <<>>]
  /\ pubLog = <<>>
  /\ req = NoRequest
  /\ incidents \in { {i} : i \in SampleIncidents }
  /\ incidentAlerts = {}
  /\ boot = "listening"

\* The server listening and a browser that has just loaded the page.
Idle == Listening /\ Page(NoCookies)

Init ==
  /\ Idle
  /\ store \in { {r} : r \in SampleRows }
  /\ nextId = 2

(***************************************************************************)
(* simulateRealTimeAlerts: the timer callback.  A tick fires every 10 s    *)
(* whether or not earlier callbacks have finished.                         *)
(***************************************************************************)
\* Math.random() >= 0.3: the callback does nothing.
TickSkip ==
  /\ timerOn
  /\ nTicks < MaxTicks
  /\ nTicks' = nTicks + 1
  /\ tickPc' = [tickPc EXCEPT ![nTicks + 1] = "skipped"]
  /\ UNCHANGED <<timerOn, tickCmds, tickRow, dbVars, sockVars, httpVars, now, incVars, authVars, uiVars>>

\* Mutant: the callback emits the alert it drew before the row is stored.
TickInsertEmitsDraft ==
  /\ timerOn
  /\ nTicks < MaxTicks
  /\ \E sev \in TickSeverities :
       /\ dbQueue' = Append(dbQueue, InsertCmd(nTicks + 1, sev))
       /\ outq' = [c \in Clients |->
                     IF sid[c] # NoSocket
                       THEN Append(outq[c], AlertRow(nextId, sev, "New"))
                       ELSE outq[c]]
  /\ nTicks' = nTicks + 1
  /\ tickPc' = [tickPc EXCEPT ![nTicks + 1] = "inserting"]
  /\ tickCmds' = [tickCmds EXCEPT ![nTicks + 1] = @ + 1]
  /\ UNCHANGED <<timerOn, tickRow, store, nextId, sid, conns, rooms, received,
                 pubLog, httpVars, now, incVars, authVars, uiVars>>

\* Math.random() < 0.3: draw the alert and issue the INSERT, then await it.
TickInsert ==
  /\ timerOn
  /\ nTicks < MaxTicks
  /\ \E sev \in TickSeverities :
       dbQueue' = Append(dbQueue, InsertCmd(nTicks + 1, sev))
  /\ nTicks' = nTicks + 1
  /\ tickPc' = [tickPc EXCEPT ![nTicks + 1] = "inserting"]
  /\ tickCmds' = [tickCmds EXCEPT ![nTicks + 1] = @ + 1]
  /\ UNCHANGED <<timerOn, tickRow, store, nextId, sockVars, httpVars, now, incVars, authVars, uiVars>>

\* Mutant: io.to(<role rooms>).emit: only sockets in a role room get the packet.
EmitToRoleRooms(payload) ==
  /\ outq' = [c \in Clients |->
                IF sid[c] # NoSocket /\ rooms[c] # {}
                  THEN Append(outq[c], payload) ELSE outq[c]]
  /\ pubLog' = Append(pubLog,
                 [alert |-> payload,
                  targets |-> { <<c, sid[c]>> : c \in { d \in Clients : sid[d] # NoSocket } },
                  conns |-> conns,
                  overlap |-> Len(dbQueue) > 1])

\* Mutant: the publisher waits while a subscriber has a packet outstanding.
EmitWithBackpressure(payload) ==
  /\ \A c \in Clients : outq[c] = <<>>
  /\ outq' = [c \in Clients |->
                IF sid[c] # NoSocket THEN Append(outq[c], payload) ELSE outq[c]]
  /\ pubLog' = Append(pubLog,
                 [alert |-> payload,
                  targets |-> { <<c, sid[c]>> : c \in { d \in Clients : sid[d] # NoSocket } },
                  conns |-> conns,
                  overlap |-> Len(dbQueue) > 1])

\* io.emit('new-alert', payload): one packet to every connected socket.
Emit(payload) ==
  /\ outq' = [c \in Clients |->
                IF c \in Connected THEN Append(outq[c], payload) ELSE outq[c]]
  /\ pubLog' = Append(pubLog,
                 [alert |-> payload,
                  targets |-> { <<c, sid[c]>> : c \in Connected },
                  conns |-> conns,
                  overlap |-> Len(dbQueue) > 1])

\* The command at the head of the connection's queue.
DbHead == Head(dbQueue)

\* Mutant: the table keeps only the newest rows (the insert evicts older ones).
InsertResolvedEvictsOldest ==
  /\ dbQueue # <<>>
  /\ Head(dbQueue).op = "INSERT"
  /\ LET t == Head(dbQueue).tick
         row == AlertRow(nextId, Head(dbQueue).arg, "New")
     IN /\ store' = { a \in store : a.id > nextId - 2 } \cup {row}
        /\ nextId' = nextId + 1
        /\ tickRow' = [tickRow EXCEPT ![t] = nextId]
        /\ tickPc' = [tickPc EXCEPT ![t] = "reading"]
        /\ dbQueue' = Append(Tail(dbQueue), SelectCmd(t, nextId))
  /\ UNCHANGED <<nTicks, timerOn, tickCmds, sockVars, httpVars, now, incVars, authVars, uiVars>>

\* The INSERT runs; the callback resumes and issues the read-back SELECT.
InsertResolved ==
  /\ dbQueue # <<>>
  /\ DbHead.op = "INSERT"
  /\ LET t == DbHead.tick
         row == AlertRow(nextId, DbHead.arg, "New")
     IN /\ store' = store \cup {row}
        /\ nextId' = nextId + 1
        /\ tickRow' = [tickRow EXCEPT ![t] = nextId]
        /\ tickPc' = [tickPc EXCEPT ![t] = "reading"]
        /\ dbQueue' = Append(Tail(dbQueue), SelectCmd(t, nextId))
  /\ UNCHANGED <<nTicks, timerOn, tickCmds, sockVars, httpVars, now, incVars, authVars, uiVars>>

\* Mutant: a rejected INSERT is issued once more.
InsertRejectedRetries ==
  /\ dbQueue # <<>>
  /\ Head(dbQueue).op = "INSERT"
  /\ LET t == Head(dbQueue).tick
     IN IF tickCmds[t] < 2
          THEN /\ dbQueue' = Append(Tail(dbQueue), Head(dbQueue))
               /\ tickCmds' = [tickCmds EXCEPT ![t] = @ + 1]
               /\ UNCHANGED tickPc
          ELSE /\ dbQueue' = Tail(dbQueue)
               /\ tickPc' = [tickPc EXCEPT ![t] = "insertFailed"]
               /\ UNCHANGED tickCmds
  /\ UNCHANGED <<store, nextId, nTicks, timerOn, tickRow, sockVars, httpVars, now, incVars, authVars, uiVars>>

\* The INSERT is rejected: no row; the catch block logs and the callback ends.
InsertRejected ==
  /\ dbQueue # <<>>
  /\ DbHead.op = "INSERT"
  /\ tickPc' = [tickPc EXCEPT ![DbHead.tick] = "insertFailed"]
  /\ dbQueue' = Tail(dbQueue)
  /\ UNCHANGED <<store, nextId, nTicks, timerOn, tickCmds, tickRow, sockVars, httpVars, now, incVars, authVars, uiVars>>

\* Mutant: read-backs complete in any order (a pool of connections).
SelectResolvedAnyOrder ==
  \E k \in DOMAIN dbQueue :
    /\ dbQueue[k].op = "SELECT"
    /\ \E payload \in SelectById(dbQueue[k].arg) : Emit(payload)
    /\ tickPc' = [tickPc EXCEPT ![dbQueue[k].tick] = "published"]
    /\ dbQueue' = [j \in 1..(Len(dbQueue) - 1) |->
                     IF j < k THEN dbQueue[j] ELSE dbQueue[j + 1]]
    /\ UNCHANGED <<store, nextId, nTicks, timerOn, tickCmds, tickRow,
                   sid, conns, rooms, received, httpVars, now, incVars, authVars, uiVars>>

\* The read-back SELECT runs; the callback resumes and emits newAlert[0].
SelectResolved ==
  /\ dbQueue # <<>>
  /\ DbHead.op = "SELECT"
  /\ \E payload \in SelectById(DbHead.arg) : Emit(payload)
  /\ tickPc' = [tickPc EXCEPT ![DbHead.tick] = "published"]
  /\ dbQueue' = Tail(dbQueue)
  /\ UNCHANGED <<store, nextId, nTicks, timerOn, tickCmds, tickRow,
                 sid, conns, rooms, received, httpVars, now, incVars, authVars, uiVars>>

\* The read-back SELECT is rejected: the catch block logs, nothing is emitted.
SelectRejected ==
  /\ dbQueue # <<>>
  /\ DbHead.op = "SELECT"
  /\ tickPc' = [tickPc EXCEPT ![DbHead.tick] = "readFailed"]
  /\ dbQueue' = Tail(dbQueue)
  /\ UNCHANGED <<store, nextId, nTicks, timerOn, tickCmds, tickRow, sockVars, httpVars, now, incVars, authVars, uiVars>>

(***************************************************************************)
(* socket.io sessions.                                                     *)
(***************************************************************************)
\* io.on('connection'): any handshake is accepted; a new socket (the client's
\* next), in no role room.
Connection(c) ==
  /\ sid[c] = NoSocket
  /\ TotalConns < MaxSockets
  /\ sid' = [sid EXCEPT ![c] = conns[c] + 1]
  /\ conns' = [conns EXCEPT ![c] = @ + 1]
  /\ rooms' = [rooms EXCEPT ![c] = {}]
  /\ UNCHANGED <<outq, received, pubLog, dbVars, tickVars, httpVars, now, incVars, authVars, uiVars>>

\* Mutant: joining a role room leaves the rooms joined before.
JoinRoleOverwrites(c) ==
  /\ sid[c] # NoSocket
  /\ \E role \in JoinRoles :
       /\ role \notin rooms[c]
       /\ rooms' = [rooms EXCEPT ![c] = {role}]
  /\ UNCHANGED <<sid, conns, outq, received, pubLog, dbVars, tickVars, httpVars, now, incVars, authVars, uiVars>>

\* socket.on('join-role', role): socket.join(role).
JoinRole(c) ==
  /\ sid[c] # NoSocket
  /\ \E role \in JoinRoles :
       /\ role \notin rooms[c]
       /\ rooms' = [rooms EXCEPT ![c] = @ \cup {role}]
  /\ UNCHANGED <<sid, conns, outq, received, pubLog, dbVars, tickVars, httpVars, now, incVars, authVars, uiVars>>

\* The client receives the oldest packet in flight on its connection.
Deliver(c) ==
  /\ sid[c] # NoSocket
  /\ outq[c] # <<>>
  /\ received' = [received EXCEPT
                    ![c] = Append(@, [alert |-> Head(outq[c]), sid |-> sid[c]])]
  /\ outq' = [outq EXCEPT ![c] = Tail(@)]
  /\ UNCHANGED <<sid, conns, rooms, pubLog, dbVars, tickVars, httpVars, now, incVars, authVars, uiVars>>

\* Mutant: packets in flight are kept for the client's next connection.
DisconnectKeepsQueue(c) ==
  /\ sid[c] # NoSocket
  /\ sid' = [sid EXCEPT ![c] = NoSocket]
  /\ rooms' = [rooms EXCEPT ![c] = {}]
  /\ UNCHANGED <<outq, conns, received, pubLog, dbVars, tickVars, httpVars, now, incVars, authVars, uiVars>>

\* socket 'disconnect' (network drop or close): the socket leaves its rooms,
\* packets not yet received are lost.
Disconnect(c) ==
  /\ sid[c] # NoSocket
  /\ sid' = [sid EXCEPT ![c] = NoSocket]
  /\ rooms' = [rooms EXCEPT ![c] = {}]
  /\ outq' = [outq EXCEPT ![c] = <<>>]
  /\ UNCHANGED <<conns, received, pubLog, dbVars, tickVars, httpVars, now, incVars, authVars, uiVars>>

(***************************************************************************)
(* REST routes: app.get(path, authenticateToken, [requireRole,] handler).  *)
(***************************************************************************)
\* A request arrives: the middleware chain runs, then the handler up to its
\* first await.
Request(e, h, q) ==
  /\ req.pc # "awaiting"
  /\ LET auth == authenticateToken(h)
         r0 == [NoRequest EXCEPT !.endpoint = e, !.header = h, !.query = q, !.pc = "done"]
     IN IF auth.status # 0
          THEN /\ req' = [r0 EXCEPT !.status = auth.status]
               /\ UNCHANGED dbQueue
        ELSE IF ~requireRole(RouteRoles(e), auth.user)
          THEN /\ req' = [r0 EXCEPT !.status = 403, !.user = auth.user, !.sent = "error"]
               /\ UNCHANGED dbQueue
        ELSE /\ req' = [r0 EXCEPT !.user = auth.user, !.pc = "awaiting", !.step = 1,
                                  !.handlerRan = TRUE, !.issued = 1]
             /\ dbQueue' = Append(dbQueue, QueryCmd(e))
  /\ UNCHANGED <<store, nextId, tickVars, sockVars, now, incVars, authVars, uiVars>>

\* A request with any header to any endpoint, no query parameters.
HttpRequest == \E e \in Endpoints, h \in Headers : Request(e, h, DefaultQuery)

\* A statement of the handler has run: it issues the next one, or answers.
QueryResolved ==
  /\ dbQueue # <<>>
  /\ DbHead.op = "QUERY"
  /\ \E r \in StatementResults(req.endpoint, req.step, req.query) :
       LET results == Append(req.results, r)
       IN IF req.step < Statements(req.endpoint)
            THEN /\ req' = [req EXCEPT !.step = @ + 1, !.issued = @ + 1,
                                       !.results = results]
                 /\ dbQueue' = Append(Tail(dbQueue), QueryCmd(req.endpoint))
            ELSE /\ req' = [req EXCEPT !.pc = "done", !.status = 200, !.sent = "data",
                                       !.results = results,
                                       !.body = Body(req.endpoint, req.query, results)]
                 /\ dbQueue' = Tail(dbQueue)
  /\ UNCHANGED <<store, nextId, tickVars, sockVars, now, incVars, authVars, uiVars>>

\* Mutant: a rejected statement makes the server drop every session.
QueryRejectedDropsSessions ==
  /\ dbQueue # <<>>
  /\ Head(dbQueue).op = "QUERY"
  /\ req' = [req EXCEPT !.pc = "done", !.status = 500, !.sent = "error"]
  /\ dbQueue' = Tail(dbQueue)
  /\ sid' = [c \in Clients |-> NoSocket]
  /\ rooms' = [c \in Clients |-> {}]
  /\ UNCHANGED <<store, nextId, tickVars, conns, outq, received, pubLog, now, incVars, authVars, uiVars>>

\* A statement is rejected: the handler's catch block answers 500.
QueryRejected ==
  /\ dbQueue # <<>>
  /\ DbHead.op = "QUERY"
  /\ req' = [req EXCEPT !.pc = "done", !.status = 500, !.sent = "error"]
  /\ dbQueue' = Tail(dbQueue)
  /\ UNCHANGED <<store, nextId, tickVars, sockVars, now, incVars, authVars, uiVars>>

Next ==
  \/ TickSkip
  \/ TickInsert
  \/ InsertResolved
  \/ InsertRejected
  \/ SelectResolved
  \/ SelectRejected
  \/ \E c \in Clients : Connection(c)
  \/ \E c \in Clients : JoinRole(c)
  \/ \E c \in Clients : Deliver(c)
  \/ \E c \in Clients : Disconnect(c)

Spec == Init /\ [][Next]_vars

\* The REST side alone: requests, one after the other.
NextHttp ==
  \/ HttpRequest
  \/ QueryResolved
  \/ QueryRejected

SpecHttp == Init /\ [][NextHttp]_vars

(***************************************************************************)
(* The overview under ingestion.  The table starts with rows of earlier    *)
(* runs: h Critical/High rows created an hour ago and, if x = 1, a Medium  *)
(* row of the same age and a Critical row that is two hours old.           *)
(***************************************************************************)
\* Numbers of Critical/High rows of the last hour the table may start with.
BaseCounts == {4, 9}
\* The clock values of the model.
Hours == 0..1

ThreatStore(h, x) ==
  { Alert(i, "Port Scan", IF i % 2 = 1 THEN "Critical" ELSE "High", "1.2.3.4",
          "New", -1, Beijing) : i \in 1..h }
    \cup { Alert(i, "Port Scan", "Medium", "1.2.3.4", "New", -1, Beijing) :
           i \in (h + 1)..(h + x) }
    \cup { Alert(i, "Failed Login", "Critical", "4.3.2.1", "Resolved", -2, Moscow) :
           i \in (h + x + 1)..(h + 2 * x) }

InitThreat ==
  /\ Idle
  /\ \E h \in BaseCounts, x \in 0..1 :
       /\ store = ThreatStore(h, x)
       /\ nextId = h + 2 * x + 1

\* The header of a logged-in analyst.
AnalystHeader == <<"Bearer", Token("server", FALSE, "SOC Analyst")>>

OverviewRequest == Request("overview", AnalystHeader, DefaultQuery)

\* An hour passes on the database server's clock.
ClockTick ==
  /\ now + 1 \in Hours
  /\ now' = now + 1
  /\ UNCHANGED <<dbVars, tickVars, sockVars, httpVars, incVars, authVars, uiVars>>

NextThreat ==
  \/ OverviewRequest
  \/ QueryResolved
  \/ QueryRejected
  \/ TickInsert
  \/ InsertResolved
  \/ InsertRejected
  \/ SelectResolved
  \/ SelectRejected
  \/ ClockTick

SpecThreat == InitThreat /\ [][NextThreat]_vars

(***************************************************************************)
(* The alerts query on a table that does not change.  The table holds up   *)
(* to MaxRows rows of earlier runs, created now or two hours ago, or a     *)
(* large number of rows of distinct age.                                   *)
(***************************************************************************)
MaxRows == 3
BigRows == 501
QueryTimes == {-2, 0}

QueryRow(i, t) ==
  Alert(i, IF i % 2 = 1 THEN "Port Scan" ELSE "Failed Login",
        IF i % 3 = 1 THEN "Critical" ELSE "High",
        IF i \in {1, 4} THEN "1.2.3.4" ELSE "4.3.2.1",
        IF i = 2 THEN "Resolved" ELSE "New", t, Beijing)

BigStore == { QueryRow(i, -i) : i \in 1..BigRows }

InitQuery ==
  /\ Idle
  /\ \/ \E k \in 1..MaxRows : \E t \in [1..k -> QueryTimes] :
          /\ store = { QueryRow(i, t[i]) : i \in 1..k }
          /\ nextId = k + 1
     \/ /\ store = BigStore
        /\ nextId = BigRows + 1

\* The filters that give one more parameter than f does.
Refine(f) ==
  { [f EXCEPT !.severity = v] : v \in {"Critical", "High"} }
    \cup { [f EXCEPT !.status = "New"], [f EXCEPT !.alertType = "Port Scan"],
           [f EXCEPT !.destinationIp = "192.168.1.100"] }
    \cup { [f EXCEPT !.sourceIp = v] : v \in {"2.3", "_", "4%1"} }
    \cup { [f EXCEPT !.timeRange = v] : v \in {1, 24} }
    \cup { [f EXCEPT !.search = v] : v \in {"Scan", "2.3", "%"} }

\* The query strings of the model: up to two filter parameters with the
\* default page, or a page and a limit with no filter.
Filters == {NoFilter} \cup Refine(NoFilter) \cup UNION { Refine(f) : f \in Refine(NoFilter) }
Pages == 1..3
Limits == {1, 2, 50, 1000}
Queries ==
  { Query(f, 1, 50) : f \in Filters }
    \cup { Query(NoFilter, p, l) : p \in Pages, l \in Limits }

AlertsRequest == \E q \in Queries : Request("alerts", AnalystHeader, q)

NextQuery ==
  \/ AlertsRequest
  \/ QueryResolved
  \/ QueryRejected

SpecQuery == InitQuery /\ [][NextQuery]_vars

(***************************************************************************)
(* The query handlers while the timer ingests: the statements of a handler *)
(* and the INSERT of a tick share the connection's queue.                  *)
(***************************************************************************)
SnapshotRequest ==
  \E e \in {"alerts", "overview"} : Request(e, AnalystHeader, DefaultQuery)

NextSnapshot ==
  \/ SnapshotRequest
  \/ QueryResolved
  \/ QueryRejected
  \/ TickSkip
  \/ TickInsert
  \/ InsertResolved
  \/ InsertRejected
  \/ SelectResolved
  \/ SelectRejected

SpecSnapshot == Init /\ [][NextSnapshot]_vars

(***************************************************************************)
(* The aggregates (geographic clusters, top alert types) under ingestion.  *)
(* The table starts with two alerts in Beijing of any of three severities, *)
(* one in Moscow, one without a location and, if x = 1, one in Beijing     *)
(* that is thirty hours old.                                               *)
(***************************************************************************)
GeoSeverities == {"Critical", "High", "Medium"}

GeoStore(s1, s2, x) ==
  { Alert(1, "Port Scan", s1, "1.2.3.4", "New", -1, Beijing),
    Alert(2, "Failed Login", s2, "4.3.2.1", "New", -2, Beijing),
    Alert(3, "Failed Login", "High", "4.3.2.1", "Resolved", -1, Moscow),
    Alert(4, "Port Scan", "Low", "1.2.3.4", "New", -1, NoLocation) }
    \cup { Alert(i, "Failed Login", "Critical", "4.3.2.1", "New", -30, Beijing) :
           i \in 5..(4 + x) }

InitGeo ==
  /\ Idle
  /\ \E s1 \in GeoSeverities, s2 \in GeoSeverities, x \in 0..1 :
       /\ store = GeoStore(s1, s2, x)
       /\ nextId = 5 + x

AggregateRequest ==
  \E e \in {"geographic", "overview"} : Request(e, AnalystHeader, DefaultQuery)

NextGeo ==
  \/ AggregateRequest
  \/ QueryResolved
  \/ QueryRejected
  \/ TickInsert
  \/ InsertResolved
  \/ InsertRejected
  \/ SelectResolved
  \/ SelectRejected

SpecGeo == InitGeo /\ [][NextGeo]_vars

(***************************************************************************)
(* Startup on a fresh database: generateSampleSecurityData inserts alerts  *)
(* and then incidents, one awaited INSERT after the other; an INSERT that  *)
(* is rejected ends the generation (initializeSampleData logs the error).  *)
(* Then the server listens and arms the timer.                             *)
(***************************************************************************)
\* The iterations of the two loops that the model explores (of 150 and 25).
SampleAlertLoop == 1..2
SampleIncidentLoop == 1..1

\* The row the alert loop inserts: status is drawn, created_at is given.
SampleAlert(i, st) ==
  [Alert(i, "Failed Login", "High", "4.3.2.1", st, -2, Moscow)
     EXCEPT !.description = <<"Failed Login", " detected from ", "4.3.2.1">>]

InitStartup ==
  /\ now = 0
  /\ store = {}
  /\ nextId = 1
  /\ dbQueue = <<>>
  /\ nTicks = 0
  /\ timerOn = FALSE
  /\ tickPc = [t \in TickIds |-> "idle"]
  /\ tickCmds = [t \in TickIds |-> 0]
  /\ tickRow = [t \in TickIds |-> 0]
  /\ sid = [c \in Clients |-> NoSocket]
  /\ conns = [c \in Clients |-> 0]
  /\ rooms = [c \in Clients |-> {}]
  /\ outq = [c \in Clients |-> <<>>]
  /\ received = [c \in Clients |-> <<>>]
  /\ pubLog = <<>>
  /\ req = NoRequest
  /\ incidents = {}
  /\ incidentAlerts = {}
  /\ boot = "alerts"
  /\ Page(NoCookies)

\* One iteration of the alert loop: the awaited INSERT has run.
GenerateAlert ==
  /\ boot = "alerts"
  /\ \E st \in Statuses : store' = store \cup { SampleAlert(nextId, st) }
  /\ nextId' = nextId + 1
  /\ boot' = IF nextId + 1 \in SampleAlertLoop THEN "alerts" ELSE "incidents"
  /\ UNCHANGED <<dbQueue, tickVars, sockVars, httpVars, now, incidents, incidentAlerts,
               authVars, uiVars>>

\* One iteration of the incident loop: the awaited INSERT has run.
GenerateIncident ==
  /\ boot = "incidents"
  /\ LET i == Cardinality(incidents) + 1
     IN /\ \E n \in AlertCounts : incidents' = incidents \cup { Incident(i, "High", "New", n) }
        /\ IF i + 1 \in SampleIncidentLoop
             THEN boot' = "incidents" /\ UNCHANGED timerOn
             ELSE boot' = "listening" /\ timerOn' = TRUE
  /\ UNCHANGED <<dbVars, nTicks, tickPc, tickCmds, tickRow, sockVars, httpVars, now,
                 incidentAlerts, authVars, uiVars>>

\* An INSERT of the generation is rejected: the rest of it is skipped.
GenerationFailed ==
  /\ boot \in {"alerts", "incidents"}
  /\ boot' = "listening"
  /\ timerOn' = TRUE
  /\ UNCHANGED <<dbVars, nTicks, tickPc, tickCmds, tickRow, sockVars, httpVars, now,
                 incidents, incidentAlerts, authVars, uiVars>>

NextStartup ==
  \/ GenerateAlert
  \/ GenerateIncident
  \/ GenerationFailed
  \/ TickSkip
  \/ TickInsert
  \/ InsertResolved
  \/ InsertRejected
  \/ SelectResolved
  \/ SelectRejected

SpecStartup == InitStartup /\ [][NextStartup]_vars

(***************************************************************************)
(* The query endpoints next to ingestion and the dashboard's session:      *)
(* requests with and without a token, statements that run or are rejected. *)
(***************************************************************************)
QueryEndpoints == {"alerts", "overview", "geographic", "incidents", "timeline"}

QueryRequest ==
  \E e \in QueryEndpoints, h \in {AnalystHeader, <<>>} : Request(e, h, DefaultQuery)

NextReadOnly ==
  \/ QueryRequest
  \/ QueryResolved
  \/ QueryRejected
  \/ TickInsert
  \/ InsertResolved
  \/ SelectResolved
  \/ Connection("c1")
  \/ JoinRole("c1")

SpecReadOnly == Init /\ [][NextReadOnly]_vars

(***************************************************************************)
(* Specification of the dashboard page and its socket sessions.            *)
(***************************************************************************)
serverVars == <<dbVars, tickVars, sockVars, httpVars, now, incVars>>

\* The commit after setUser(u): DashboardContent mounts with the Overview, whose
\* effect subscribes with the context of that render; then the provider's
\* effect makes a socket and stores it, and the page renders once more (the
\* Overview's effect has no dependencies and does not run again).
Authenticated(u) ==
  /\ mounts + 1 \in HandlerIds
  /\ sockets[NewSocket].state = "unused"
  /\ LET S1 == subscribeToAlerts(sockets, socket, mounts + 1)
     IN sockets' = [S1 EXCEPT ![NewSocket] =
                      [state |-> "opening", role |-> u, listeners |-> <<>>]]
  /\ socket' = NewSocket
  /\ activeSection' = "overview"
  /\ mounted' = [handler |-> mounts + 1, sock |-> socket]
  /\ mounts' = mounts + 1
  /\ UNCHANGED <<isConnected, joinq, eventLog>>

\* The commit after setUser(null): DashboardContent unmounts; the provider's
\* effect is cleaned up (newSocket.close()) and its else branch closes the
\* stored socket and clears the provider's state.
Unauthenticated ==
  /\ LET S1 == Cleanup(sockets)
     IN sockets' = IF socket # null THEN [S1 EXCEPT ![socket].state = "closed"] ELSE S1
  /\ isConnected' = IF socket # null THEN FALSE ELSE isConnected
  /\ socket' = null
  /\ activeSection' = null
  /\ mounted' = NoComponent
  /\ UNCHANGED <<mounts, joinq, eventLog>>

\* AuthProvider's effect on load: restore the session from the cookies.
RestoreSession ==
  /\ isLoading
  /\ isLoading' = FALSE
  /\ IF cookies.token # Undefined /\ cookies.userData # NoText
       THEN LET parsedUser == JsonParse(cookies.userData)
            IN IF parsedUser = "SyntaxError"
                 THEN /\ cookies' = NoCookies
                      /\ UNCHANGED <<user, authorization, uiVars>>
                 ELSE /\ user' = parsedUser
                      /\ authorization' = Bearer(cookies.token)
                      /\ UNCHANGED cookies
                      /\ IF parsedUser # null THEN Authenticated(parsedUser)
                                              ELSE UNCHANGED uiVars
       ELSE UNCHANGED <<user, cookies, authorization, uiVars>>
  /\ UNCHANGED <<loginPc, error, serverVars>>

\* LoginForm.handleSubmit up to its await of login().
LoginSubmit ==
  /\ ~isLoading
  /\ user = null
  /\ loginPc = "idle"
  /\ loginPc' = "pending"
  /\ error' = ""
  /\ UNCHANGED <<user, cookies, authorization, isLoading, uiVars, serverVars>>

\* Mutant: a failed login clears what is stored of the session.
LoginRejectedClearsSession ==
  /\ loginPc = "pending"
  /\ loginPc' = "idle"
  /\ error' = "Login failed. Please check your credentials."
  /\ cookies' = NoCookies
  /\ authorization' = <<>>
  /\ UNCHANGED <<user, isLoading, uiVars, serverVars>>

\* login(): POST /auth/login answers with the token and the user.
LoginResolved(u) ==
  /\ loginPc = "pending"
  /\ loginPc' = "idle"
  /\ cookies' = SessionCookies(u)
  /\ authorization' = Bearer(SessionCookies(u).token)
  /\ user' = u
  /\ Authenticated(u)
  /\ UNCHANGED <<isLoading, error, serverVars>>

\* login(): the request fails; login throws and handleSubmit shows the message.
LoginRejected ==
  /\ loginPc = "pending"
  /\ loginPc' = "idle"
  /\ error' = "Login failed. Please check your credentials."
  /\ UNCHANGED <<user, cookies, authorization, isLoading, uiVars, serverVars>>

\* Mutant: logout leaves the socket of the session open.
LogoutKeepsSocket ==
  /\ user # null
  /\ cookies' = NoCookies
  /\ authorization' = <<>>
  /\ user' = null
  /\ sockets' = Cleanup(sockets)
  /\ activeSection' = null
  /\ mounted' = NoComponent
  /\ UNCHANGED <<socket, isConnected, mounts, joinq, eventLog>>
  /\ UNCHANGED <<isLoading, loginPc, error, serverVars>>

\* Header.handleLogout: logout().
Logout ==
  /\ user # null
  /\ cookies' = NoCookies
  /\ authorization' = <<>>
  /\ user' = null
  /\ Unauthenticated
  /\ UNCHANGED <<isLoading, loginPc, error, serverVars>>

\* Mutant: the Sidebar renders a button for every navigation item.
SectionChangeAnyItem(item) ==
  /\ user # null
  /\ item # activeSection
  /\ activeSection' = item
  /\ IF renderContent(item) = renderContent(activeSection)
       THEN UNCHANGED <<mounted, mounts, sockets>>
       ELSE IF renderContent(item) \in Subscribing
              THEN /\ mounts + 1 \in HandlerIds
                   /\ sockets' = subscribeToAlerts(Cleanup(sockets), socket, mounts + 1)
                   /\ mounted' = [handler |-> mounts + 1, sock |-> socket]
                   /\ mounts' = mounts + 1
              ELSE /\ sockets' = Cleanup(sockets)
                   /\ mounted' = NoComponent
                   /\ UNCHANGED mounts
  /\ UNCHANGED <<socket, isConnected, joinq, eventLog, authVars, serverVars>>

\* A click on a Sidebar button: setActiveSection(item.id).  When the section's
\* element is of another component, the old one unmounts and the new one mounts.
SectionChange(item) ==
  /\ user # null
  /\ item \in filteredItems
  /\ item # activeSection
  /\ activeSection' = item
  /\ IF renderContent(item) = renderContent(activeSection)
       THEN UNCHANGED <<mounted, mounts, sockets>>
       ELSE IF renderContent(item) \in Subscribing
              THEN /\ mounts + 1 \in HandlerIds
                   /\ sockets' = subscribeToAlerts(Cleanup(sockets), socket, mounts + 1)
                   /\ mounted' = [handler |-> mounts + 1, sock |-> socket]
                   /\ mounts' = mounts + 1
              ELSE /\ sockets' = Cleanup(sockets)
                   /\ mounted' = NoComponent
                   /\ UNCHANGED mounts
  /\ UNCHANGED <<socket, isConnected, joinq, eventLog, authVars, serverVars>>

\* The server accepts a connection of a client socket that is trying to connect.
ClientConnection(c) ==
  /\ sockets[c].state \in {"opening", "backoff"}
  /\ Connection(c)

\* The section component after a render of the provider.
Remounted ==
  IF renderContent(activeSection) = "ThreatMonitoring"
    THEN [mounted EXCEPT !.sock = socket]
    ELSE mounted

\* Mutant: join-role is emitted on the first connect of a socket only.
OnConnectJoinsOnce(c) ==
  /\ sockets[c].state \in {"opening", "backoff"}
  /\ sid[c] # NoSocket
  /\ isConnected' = TRUE
  /\ joinq' = IF conns[c] = 1 THEN [joinq EXCEPT ![c] = Append(@, sockets[c].role)] ELSE joinq
  /\ LET S1 == [sockets EXCEPT ![c].state = "connected"]
     IN sockets' = IF isConnected THEN S1 ELSE Rerendered(S1)
  /\ mounted' = IF isConnected THEN mounted ELSE Remounted
  /\ UNCHANGED <<activeSection, mounts, socket, eventLog, authVars, serverVars>>

\* newSocket.on('connect'): setIsConnected(true), emit join-role with user.role.
OnConnect(c) ==
  /\ sockets[c].state \in {"opening", "backoff"}
  /\ sid[c] # NoSocket
  /\ isConnected' = TRUE
  /\ joinq' = [joinq EXCEPT ![c] = Append(@, sockets[c].role)]
  /\ LET S1 == [sockets EXCEPT ![c].state = "connected"]
     IN sockets' = IF isConnected THEN S1 ELSE Rerendered(S1)
  /\ mounted' = IF isConnected THEN mounted ELSE Remounted
  /\ UNCHANGED <<activeSection, mounts, socket, eventLog, authVars, serverVars>>

\* newSocket.on('connect_error'): setIsConnected(false); the socket retries.
ConnectError(c) ==
  /\ sockets[c].state = "opening"
  /\ sid[c] = NoSocket
  /\ isConnected' = FALSE
  /\ LET S1 == [sockets EXCEPT ![c].state = "backoff"]
     IN sockets' = IF isConnected THEN Rerendered(S1) ELSE S1
  /\ mounted' = IF isConnected THEN Remounted ELSE mounted
  /\ UNCHANGED <<activeSection, mounts, socket, joinq, eventLog, authVars, serverVars>>

\* newSocket.on('disconnect') after the connection is lost: setIsConnected(false);
\* packets on the lost connection are gone and the socket reconnects.
OnDisconnect(c) ==
  /\ sockets[c].state = "connected"
  /\ sid[c] = NoSocket
  /\ isConnected' = FALSE
  /\ joinq' = [joinq EXCEPT ![c] = <<>>]
  /\ LET S1 == [sockets EXCEPT ![c].state = "opening"]
     IN sockets' = IF isConnected THEN Rerendered(S1) ELSE S1
  /\ mounted' = IF isConnected THEN Remounted ELSE mounted
  /\ UNCHANGED <<activeSection, mounts, socket, eventLog, authVars, serverVars>>

\* socket.on('join-role', role) for the packet a dashboard client emitted.
OnJoinRole(c) ==
  /\ sid[c] # NoSocket
  /\ joinq[c] # <<>>
  /\ rooms' = [rooms EXCEPT ![c] = @ \cup {Head(joinq[c])}]
  /\ joinq' = [joinq EXCEPT ![c] = Tail(@)]
  /\ UNCHANGED <<sid, conns, outq, received, pubLog, dbVars, tickVars, httpVars, now,
                 incVars, authVars, activeSection, mounted, mounts, socket, isConnected,
                 sockets, eventLog>>

\* A new-alert event reaches a connected client socket: its listeners are
\* called in the order of their registration.
NewAlert(c) ==
  /\ sockets[c].state = "connected"
  /\ Len(eventLog) + 1 \in AlertEvents
  /\ eventLog' = Append(eventLog, [socket |-> c, invoked |-> sockets[c].listeners,
                                   user |-> user])
  /\ UNCHANGED <<activeSection, mounted, mounts, socket, isConnected, sockets, joinq,
                 authVars, serverVars>>

\* A page load with any of the cookies a browser may hold.
InitSession ==
  /\ Listening
  /\ store \in { {r} : r \in SampleRows }
  /\ nextId = 2
  /\ \E ck \in InitialCookies : Page(ck)

\* Sessions of the page: restore, logins, logouts and clicks in the Sidebar.
NextSession ==
  \/ RestoreSession
  \/ LoginSubmit
  \/ \E u \in Roles : LoginResolved(u)
  \/ LoginRejected
  \/ Logout
  \/ \E i \in DOMAIN navigationItems : SectionChange(navigationItems[i].id)

SpecSession == InitSession /\ [][NextSession]_vars

\* A page load with no cookies or with those of an earlier login.
InitLive ==
  /\ Listening
  /\ store \in { {r} : r \in SampleRows }
  /\ nextId = 2
  /\ \E ck \in { NoCookies, SessionCookies("SOC Analyst") } : Page(ck)

\* The page and its live connection: sessions of two roles, the sections of
\* the two subscribing components and of one other, connects, lost
\* connections, join-role packets and new-alert events.
NextLive ==
  \/ RestoreSession
  \/ LoginSubmit
  \/ \E u \in JoinRoles : LoginResolved(u)
  \/ Logout
  \/ \E item \in LiveItems : SectionChange(item)
  \/ \E c \in Clients : ClientConnection(c)
  \/ \E c \in Clients : OnConnect(c)
  \/ \E c \in Clients : ConnectError(c)
  \/ \E c \in Clients : Disconnect(c)
  \/ \E c \in Clients : OnDisconnect(c)
  \/ \E c \in Clients : OnJoinRole(c)
  \/ \E c \in Clients : NewAlert(c)

SpecLive == InitLive /\ [][NextLive]_vars

(***************************************************************************)
(* Verification.                                                           *)
(***************************************************************************)
\* Number of times client c has received payload a.
Rcv(c, a) == Cardinality({ j \in DOMAIN received[c] : received[c][j].alert = a })
\* Number of copies of payload a in flight to client c.
InFlight(c, a) == Cardinality({ j \in DOMAIN outq[c] : outq[c][j] = a })
\* Clients that had a connected socket at publish i.
TargetClients(i) == { p[1] : p \in pubLog[i].targets }

\* C1 (as stated): every session connected at the moment of a publish receives
\* the payload exactly once; stated for the moment nothing more can arrive on
\* its socket (the socket is closed, or no copy is in flight any more).
C1_ReceivedExactlyOnce ==
  \A i \in DOMAIN pubLog : \A p \in pubLog[i].targets :
    LET c == p[1]
        a == pubLog[i].alert
    IN (sid[c] # p[2] \/ InFlight(c, a) = 0) => Rcv(c, a) = 1

\* C1 (amended): io.emit hands the payload exactly once to every session
\* connected at the moment of the publish, whatever role rooms it is in (none,
\* one, several, others than its peers); such a session receives it at most
\* once: once it arrived, or one copy still in flight while the session stays
\* connected, and never after the session disconnected first.  A session not
\* connected at the publish gets nothing.
C1_SentOnceReceivedAtMostOnce ==
  \A i \in DOMAIN pubLog : \A c \in Clients :
    LET a == pubLog[i].alert
        live == sid[c] # NoSocket /\ <<c, sid[c]>> \in pubLog[i].targets
    IN /\ live => Rcv(c, a) + InFlight(c, a) = 1
       /\ (c \in TargetClients(i) /\ ~live) => (Rcv(c, a) <= 1 /\ InFlight(c, a) = 0)
       /\ c \notin TargetClients(i) => (Rcv(c, a) = 0 /\ InFlight(c, a) = 0)

\* Witness of C1: one publish reached a session in no role room and a session
\* in a role room, once each.
C1_Witness ==
  \E i \in DOMAIN pubLog : \E c, d \in Clients :
    /\ <<c, sid[c]>> \in pubLog[i].targets /\ <<d, sid[d]>> \in pubLog[i].targets
    /\ rooms[c] = {} /\ rooms[d] = {"Administrator"}
    /\ Rcv(c, pubLog[i].alert) = 1 /\ Rcv(d, pubLog[i].alert) = 1

\* C2: every session receives the alerts in the order of their ids (the order
\* they were stored in), also when the ticks that produced them overlapped;
\* the packets in flight continue that order.
C2_DeliveryOrderIsStorageOrder ==
  \A c \in Clients :
    LET seen == [j \in DOMAIN received[c] |-> received[c][j].alert.id]
        ids == seen \o [j \in DOMAIN outq[c] |-> outq[c][j].id]
    IN \A j, k \in DOMAIN ids : j < k => ids[j] < ids[k]

\* Witness of C2: a session received two alerts whose ticks overlapped (the
\* later tick's command was pending when the earlier alert was emitted).
C2_Witness ==
  \E c \in Clients :
    /\ Len(received[c]) >= 2
    /\ Len(pubLog) >= 2
    /\ pubLog[1].overlap

\* C3: every event a client received was published while the very socket it
\* arrived on was connected: nothing published while the client was
\* disconnected, or before its current connection, ever reaches it, and
\* nothing is kept in flight for a disconnected client.
C3_NoReplayAfterReconnect ==
  \A c \in Clients :
    /\ \A j \in DOMAIN received[c] :
         \E i \in DOMAIN pubLog :
           /\ pubLog[i].alert = received[c][j].alert
           /\ <<c, received[c][j].sid>> \in pubLog[i].targets
    /\ sid[c] = NoSocket => outq[c] = <<>>
    /\ \A i \in DOMAIN pubLog : \A j \in DOMAIN outq[c] :
         outq[c][j] = pubLog[i].alert => <<c, sid[c]>> \in pubLog[i].targets

\* Witness of C3: a client that had connected and was disconnected when an
\* alert was published has reconnected and received a later alert.
C3_Witness ==
  \E c \in Clients : \E i \in DOMAIN pubLog :
    /\ pubLog[i].conns[c] >= 1
    /\ c \notin TargetClients(i)
    /\ sid[c] # NoSocket
    /\ received[c] # <<>>
    /\ Rcv(c, pubLog[i].alert) = 0

\* C4: a payload is emitted only after its row is stored: every payload in
\* flight or received is the stored row with its id, so the unfiltered query
\* (WHERE 1=1) ranges over it and counts it from then on, whoever asks.
C4_PublishedOnlyAfterStored ==
  /\ \A c \in Clients :
       \A a \in { received[c][j].alert : j \in DOMAIN received[c] }
                  \cup { outq[c][j] : j \in DOMAIN outq[c] } :
         /\ SelectById(a.id) = {a}
         /\ a \in WhereAlerts(NoFilter)
         /\ CountAlerts(NoFilter) = Cardinality(store)
  /\ \A i \in DOMAIN pubLog : SelectById(pubLog[i].alert.id) = {pubLog[i].alert}

\* Witness of C4: one session received an alert that another, connected
\* before, missed; the unfiltered query ranges over it.
C4_Witness ==
  \E i \in DOMAIN pubLog : \E c, d \in Clients :
    /\ Rcv(c, pubLog[i].alert) = 1
    /\ d \notin TargetClients(i) /\ pubLog[i].conns[d] >= 1
    /\ pubLog[i].alert \in WhereAlerts(NoFilter)

\* Alerts published for the row a tick inserted.
Publishes(t) == { i \in DOMAIN pubLog : pubLog[i].alert.id = tickRow[t] }

\* C5 (as stated): once the ingestion step of a stored alert has finished,
\* the alert has been published exactly once.
C5_StoredAlertIsPublished ==
  \A t \in TickIds :
    (tickRow[t] # 0 /\ tickPc[t] \notin {"inserting", "reading"})
      => Cardinality(Publishes(t)) = 1

\* Rows stored after the server started listening.
LiveRows == { a \in store : a.id \notin { r.id : r \in SampleRows } }

\* C6: a rejected insert leaves no row, no publish and no pending command of
\* its tick, the insert is issued once only, every live row belongs to one
\* successful insert, and the timer stays armed: the next tick can fire.
C6_FailedInsertIsAllOrNothing ==
  /\ \A t \in TickIds :
       /\ tickCmds[t] <= 1
       /\ tickPc[t] = "insertFailed" =>
            /\ tickRow[t] = 0
            /\ \A k \in DOMAIN dbQueue : dbQueue[k].tick # t
  /\ \A t, u \in TickIds : (tickRow[t] # 0 /\ tickRow[t] = tickRow[u]) => t = u
  /\ { a.id : a \in LiveRows } = { tickRow[t] : t \in TickIds } \ {0}
  /\ Cardinality(LiveRows) = Cardinality({ t \in TickIds : tickRow[t] # 0 })
  /\ \A i \in DOMAIN pubLog : pubLog[i].alert \in LiveRows
  /\ timerOn
  /\ nTicks < MaxTicks => ENABLED TickInsert

\* Witness of C6: the first tick's insert was rejected and the second tick's
\* alert was stored and published.
C6_Witness ==
  /\ tickPc[1] = "insertFailed"
  /\ tickPc[2] = "published"
  /\ Cardinality(LiveRows) = 1

\* Packets emitted to the socket client c has now.
EmittedTo(c) == { i \in DOMAIN pubLog : <<c, sid[c]>> \in pubLog[i].targets }
\* Events client c received on the socket it has now.
ReceivedOnSocket(c) == { j \in DOMAIN received[c] : received[c][j].sid = sid[c] }

C8_AtMostOneRoom == \A c \in Clients : Cardinality(rooms[c]) <= 1

\* C8 (amended): role rooms accumulate.  A new connection starts in no role
\* room; on a connected session every change of its rooms adds one role's room
\* and keeps the rooms joined before (after join-role r1 and join-role r2 the
\* session is in both); a session leaves its rooms only by disconnecting.
C8_RoomsAccumulate ==
  [][\A c \in Clients :
       /\ (sid[c] = NoSocket /\ sid'[c] # NoSocket) => rooms'[c] = {}
       /\ (sid[c] # NoSocket /\ sid'[c] = sid[c] /\ rooms'[c] # rooms[c]) =>
            \E role \in JoinRoles :
              role \notin rooms[c] /\ rooms'[c] = rooms[c] \cup {role}
       /\ sid'[c] = NoSocket => rooms'[c] = {}]_vars

\* Witness of C8: a session that joined two role rooms is in both.
C8_Witness == \E c \in Clients : sid[c] # NoSocket /\ rooms[c] = JoinRoles

\* The request carried a token that jwt.verify accepts.
ValidPrincipal == authenticateToken(req.header).status = 0

\* C9, REST part: without a valid token the request is answered 401 (no
\* token) or 403 (rejected token), the handler does not run, no statement is
\* issued and no data is sent.
C9_RestGate ==
  (req.pc # "none" /\ ~ValidPrincipal) =>
    /\ req.pc = "done"
    /\ req.status = (IF Len(req.header) < 2 THEN 401 ELSE 403)
    /\ ~req.handlerRan
    /\ req.issued = 0
    /\ req.sent # "data"

\* What a session presented to the server: a token in its handshake, or at
\* least a role in join-role.
Presented(c) == Handshake[c] = "token" \/ rooms[c] # {}

\* C9: every endpoint requires a valid principal: the REST gate above, and no
\* new-alert packet goes to a session that presented no principal.
C9_EveryEndpointRequiresPrincipal ==
  /\ C9_RestGate
  /\ \A c \in Clients : outq[c] # <<>> => Presented(c)

\* C10 (as stated): an authenticated request to the user listing returns the
\* list if and only if the role is Administrator; any other role gets 403 and
\* no statement is issued.
C10_ListIffAdministrator ==
  (req.endpoint = "users" /\ req.pc = "done" /\ ValidPrincipal) =>
    /\ (req.status = 200 /\ req.sent = "data") <=> req.user = "Administrator"
    /\ req.user # "Administrator" => (req.status = 403 /\ req.issued = 0)

\* C10 (amended): the role gate decides on the role alone.  Any role but
\* Administrator gets 403, the handler does not run and the listing statement
\* is never issued; for Administrator the handler runs and issues the listing
\* statement, and the answer is the list when the statement succeeds and 500
\* when it is rejected.
C10_RoleGate ==
  (req.endpoint = "users" /\ req.pc # "none" /\ ValidPrincipal) =>
    /\ req.user # "Administrator" =>
         /\ req.pc = "done" /\ req.status = 403
         /\ ~req.handlerRan /\ req.issued = 0 /\ req.sent # "data"
    /\ req.user = "Administrator" =>
         /\ req.handlerRan /\ req.issued = 1
         /\ req.pc = "done" =>
              \/ req.status = 200 /\ req.sent = "data"
              \/ req.status = 500 /\ req.sent = "error"

\* Witness of C10: a SOC Analyst's request to the user listing was refused.
C10_Witness ==
  /\ req.endpoint = "users" /\ req.pc = "done"
  /\ ValidPrincipal /\ req.user = "SOC Analyst"
  /\ req.status = 403

\* The rows of severity Critical or High that are at most one hour old.
RecentHighSeverity ==
  { a \in store : (a.severity = "Critical" \/ a.severity = "High") /\ now - a.created_at <= 1 }
\* This step answers an overview request with its data.
OverviewAnswered ==
  /\ req.endpoint = "overview"
  /\ req.pc = "awaiting"
  /\ req'.pc = "done"
  /\ req'.status = 200

\* C11: the threat level of an overview answer is Red when the number n of
\* Critical/High alerts of the last hour exceeds 10, Yellow when 5 < n <= 10
\* and Green when n <= 5; nothing else in the table changes it.
C11_ThreatLevelByCount ==
  [][OverviewAnswered =>
       LET n == Cardinality(RecentHighSeverity)
           level == req'.body.metrics.threatLevel
       IN /\ level \in {"Red", "Yellow", "Green"}
          /\ (level = "Red" <=> n > 10)
          /\ (level = "Yellow" <=> (5 < n /\ n <= 10))
          /\ (level = "Green" <=> n <= 5)]_vars
\* An overview answered Yellow at exactly ten such alerts, with a Medium alert
\* of the last hour and an older Critical alert in the table.
C11_Witness ==
  /\ req.endpoint = "overview"
  /\ req.status = 200
  /\ req.body.metrics.threatLevel = "Yellow"
  /\ req.results[7] = 10
  /\ Cardinality(RecentHighSeverity) = 10
  /\ \E a \in store : a.severity = "Medium" /\ now - a.created_at <= 1
  /\ \E a \in store : a.severity = "Critical" /\ now - a.created_at > 1

\* The level an overview read reports in the current state, and its rank.
LevelNow == ThreatLevel(CriticalAlerts)
LevelRank(level) == CASE level = "Green" -> 0 [] level = "Yellow" -> 1 [] level = "Red" -> 2
\* The alerts inside the one-hour window.
InLastHour == { a \in store : now - a.created_at <= 1 }

\* C12: over steps in which no alert leaves the one-hour window the level
\* never goes down, and the append of one alert raises it by at most one
\* rank (Green to Yellow, Yellow to Red).
C12_ThreatLevelMonotonic ==
  [][InLastHour \subseteq InLastHour' =>
       /\ LevelRank(LevelNow') >= LevelRank(LevelNow)
       /\ (Cardinality(store') <= Cardinality(store) + 1 =>
             LevelRank(LevelNow') <= LevelRank(LevelNow) + 1)]_vars
\* Two ticks have appended Critical alerts to nine of the last hour: the
\* level has gone from Yellow to Red.
C12_Witness ==
  /\ LevelNow = "Red"
  /\ Cardinality(RecentHighSeverity) = 11
  /\ \E t, u \in TickIds : tickRow[t] = 10 /\ tickRow[u] = 11

\* The last request was to /api/alerts and was answered with data.
AlertsAnswered == req.endpoint = "alerts" /\ req.status = 200
\* The items of the answer, as a set.
Items == { req.body.alerts[i] : i \in DOMAIN req.body.alerts }
\* v occurs in s as a run of consecutive characters.
Contains(s, v) == \E i \in 0..(Len(s) - Len(v)) : SubSeq(s, i + 1, i + Len(v)) = v
\* Alert a satisfies every predicate that filter f supplies.
Satisfies(a, f) ==
  /\ (f.severity # "" => a.severity = f.severity)
  /\ (f.status # "" => a.status = f.status)
  /\ (f.alertType # "" => a.alert_type = f.alertType)
  /\ (f.sourceIp # "" => Contains(Chars[a.source_ip], Chars[f.sourceIp]))
  /\ (f.destinationIp # "" => Contains(Chars[a.destination_ip], Chars[f.destinationIp]))
  /\ (f.timeRange # NoTimeRange => now - a.created_at <= f.timeRange)
  /\ (f.search # "" =>
        \/ Contains(Chars[a.alert_type], Chars[f.search])
        \/ Contains(Text(a.description), Chars[f.search])
        \/ Contains(Chars[a.source_ip], Chars[f.search]))

\* C13: an answer that holds the whole result (page 1, limit >= total) holds
\* exactly the stored alerts that satisfy every supplied predicate, the
\* textual ones by substring.
C13_ExactlyTheAlertsThatSatisfy ==
  (AlertsAnswered /\ req.query.page = 1 /\ req.query.limit >= req.body.pagination.total) =>
    Items = { a \in store : Satisfies(a, req.query.filter) }

\* C14: the items of an answer are ordered by created_at descending, alerts
\* of equal created_at by id descending.
C14_OrderedByTimeThenId ==
  AlertsAnswered =>
    \A i, j \in DOMAIN req.body.alerts :
      i < j =>
        LET a == req.body.alerts[i]
            b == req.body.alerts[j]
        IN \/ a.created_at > b.created_at
           \/ (a.created_at = b.created_at /\ a.id > b.id)

\* The result of filter f in the order created_at descending, id descending.
OrderedResult(f) ==
  CHOOSE ord \in OrderByDesc({ [key |-> a.created_at * nextId + a.id, val |-> a] :
                               a \in WhereAlerts(f) }) : TRUE

\* C15: total is the number of stored alerts the filter selects, pages
\* is the least p with p * limit >= total, and page p holds the items at
\* positions (p-1)*limit .. p*limit-1 of the ordered result (so the pages of
\* an unchanged store are disjoint and cover it).
C15_PagesSliceTheOrderedResult ==
  AlertsAnswered =>
    LET q == req.query
        total == req.body.pagination.total
        pages == req.body.pagination.pages
        ord == OrderedResult(q.filter)
    IN /\ total = Cardinality(WhereAlerts(q.filter))
       /\ pages * q.limit >= total
       /\ (pages > 0 => (pages - 1) * q.limit < total)
       /\ req.body.alerts =
            [i \in 1..Cardinality({ k \in DOMAIN ord :
                                     (q.page - 1) * q.limit < k /\ k <= q.page * q.limit })
               |-> ord[(q.page - 1) * q.limit + i]]

\* C17: an answer never carries more than 500 items.
C17_PageSizeClamped == AlertsAnswered => Len(req.body.alerts) <= 500

\* The sum of the counts of a set of [severity, count] rows.
RECURSIVE SumCounts(_)
SumCounts(S) ==
  IF S = {} THEN 0
  ELSE LET g == CHOOSE x \in S : TRUE IN g.count + SumCounts(S \ {g})

\* C16: one answer is computed from one state of the table: an alerts answer
\* that holds the whole result has as many items as its total says, and the
\* severityBreakdown counts of an overview answer sum to its alerts24h.
C16_ConsistentSnapshot ==
  /\ (AlertsAnswered /\ req.query.page = 1 /\ req.query.limit >= req.body.pagination.total) =>
       Len(req.body.alerts) = req.body.pagination.total
  /\ (req.endpoint = "overview" /\ req.status = 200) =>
       SumCounts(req.body.severityBreakdown) = req.body.metrics.alerts24h

\* This step answers a request to /api/threats/geographic with its data.
GeoAnswered ==
  /\ req.endpoint = "geographic"
  /\ req.pc = "awaiting"
  /\ req'.pc = "done"
  /\ req'.status = 200
\* The alerts with both coordinates that are at most 24 hours old.
Located ==
  { a \in store : a.latitude # Null /\ a.longitude # Null /\ now - a.created_at <= 24 }
\* Alert a belongs to cluster c.
InCluster(a, c) ==
  /\ a.country_code = c.country_code
  /\ a.city = c.city
  /\ a.latitude = c.latitude
  /\ a.longitude = c.longitude
\* The fixed rank Critical > High > Medium > Low > Informational.
SeverityRank(sev) ==
  CASE sev = "Critical" -> 5 [] sev = "High" -> 4 [] sev = "Medium" -> 3
    [] sev = "Low" -> 2 [] sev = "Informational" -> 1

\* C18: the max_severity of every cluster of an answer is the severity of
\* highest rank among the cluster's alerts.
C18_MaxSeverityIsHighestRank ==
  [][GeoAnswered =>
       \A c \in req'.body :
         LET members == { a \in Located : InCluster(a, c) }
         IN /\ c.max_severity \in { a.severity : a \in members }
            /\ \A a \in members :
                 SeverityRank(a.severity) <= SeverityRank(c.max_severity)]_vars

\* The sum of the alert_counts of a set of clusters.
RECURSIVE SumAlertCounts(_)
SumAlertCounts(S) ==
  IF S = {} THEN 0
  ELSE LET c == CHOOSE x \in S : TRUE IN c.alert_count + SumAlertCounts(S \ {c})

C20_TopTypesOrderedByCountThenType ==
  (req.endpoint = "overview" /\ req.status = 200) =>
    LET top == req.body.topAlertTypes
    IN /\ Len(top) <= 5
       /\ \A i, j \in DOMAIN top :
            i < j =>
              \/ top[i].count > top[j].count
              \/ /\ top[i].count = top[j].count
                 /\ top[i].alert_type # top[j].alert_type
                 /\ StringLeq(Chars[top[i].alert_type], Chars[top[j].alert_type])

\* C21: every stored alert has resolved_at non-null exactly when its status
\* is Resolved, and assigned_to non-null only when its status is not New.
C21_ResolvedAtIffResolved ==
  \A a \in store :
    /\ (a.resolved_at # Null <=> a.status = "Resolved")
    /\ (a.assigned_to # Null => a.status # "New")

\* C22: the alert_count of every incident is the number of incident_alerts
\* links that reference it.
C22_AlertCountIsNumberOfLinks ==
  \A i \in incidents :
    i.alert_count = Cardinality({ l \in incidentAlerts : l.incident_id = i.id })

\* C23: ids are unique; a step never removes or changes a stored alert (so
\* its id and created_at stay and the cardinality never decreases), and
\* every alert a step stores has an id greater than that of every alert
\* stored before.
C23_IdsMonotonicAlertsStable ==
  [][/\ \A a, b \in store' : a.id = b.id => a = b
     /\ store \subseteq store'
     /\ Cardinality(store') >= Cardinality(store)
     /\ \A b \in store' \ store : \A a \in store : b.id > a.id]_vars
\* The table holds two generated alerts and two alerts stored by ticks.
C23_Witness ==
  /\ Cardinality(store) = 4
  /\ \E t, u \in TickIds : tickRow[t] = 3 /\ tickRow[u] = 4
  /\ \E a \in store : a.id = 1 /\ a.created_at < now

\* C24: a step that serves a request (it changes req: the request arrives, a
\* statement runs or is rejected, the answer is sent) leaves the alerts, the
\* incidents and their links, the connected sessions and their rooms as they
\* are and publishes nothing.
C24_QueriesAreReadOnly ==
  [][req' # req =>
       /\ UNCHANGED <<store, nextId, incidents, incidentAlerts>>
       /\ UNCHANGED <<sid, rooms>>
       /\ UNCHANGED <<pubLog, outq>>]_vars
\* A request to /api/incidents has been answered 500 while a session is in a
\* role room and a tick's alert is stored and published.
C24_Witness ==
  /\ req.endpoint = "incidents"
  /\ req.status = 500
  /\ \E c \in Clients : sid[c] # NoSocket /\ rooms[c] # {}
  /\ Cardinality(store) = 2
  /\ Len(pubLog) = 1

(***************************************************************************)
(* The dashboard page: subscriptions, the live connection, sections and    *)
(* the authentication state.                                               *)
(***************************************************************************)
\* The handlers called for the event the page received last.
Invoked(log) == { log[Len(log)].invoked[i] : i \in DOMAIN log[Len(log)].invoked }

\* The handlers registered for new-alert on the open client sockets.
Registered(S) ==
  { <<c, i>> \in Clients \X HandlerIds :
      S[c].state \in OpenStates /\ i \in DOMAIN S[c].listeners }

\* ThreatMonitoring's handler is called for every event received while it is
\* mounted: its effect runs again when the provider has stored the socket.
ThreatMonitoringHandlerInvoked ==
  [][(eventLog' # eventLog /\ renderContent(activeSection) = "ThreatMonitoring")
       => mounted.handler \in Invoked(eventLog')]_vars

\* C25: the handler a mounted component passed to subscribeToAlerts is invoked
\* for every new-alert event the client connection receives while the
\* component is mounted, the Overview's (subscribed once, on mount) included.
C25_SubscribedHandlerInvoked ==
  [][(eventLog' # eventLog /\ mounted.handler # 0)
       => mounted.handler \in Invoked(eventLog')]_vars

\* C26: the handlers registered for new-alert are at most as many as the
\* mounted subscribing components and are theirs, and an event invokes no
\* handler of a component that has unmounted.
C26_NoHandlerOutlivesItsComponent ==
  [][/\ Cardinality(Registered(sockets')) <= (IF mounted'.handler # 0 THEN 1 ELSE 0)
     /\ \A r \in Registered(sockets') : sockets'[r[1]].listeners[r[2]] = mounted'.handler
     /\ eventLog' # eventLog => Invoked(eventLog') \subseteq {mounted.handler}]_vars

\* C27: each entry of a client socket into the connected state emits exactly
\* one join-role with the authenticated user's role and no other step emits
\* one; a new server-side session has an id never used before and no room,
\* and it enters exactly the room of that role when the join-role arrives.
C27_OneJoinRolePerConnect ==
  [][\A c \in Clients :
       LET entered == sockets[c].state # "connected" /\ sockets'[c].state = "connected"
       IN /\ entered => /\ user \in Roles
                        /\ sockets[c].role = user
                        /\ joinq'[c] = Append(joinq[c], user)
          /\ ~entered => Len(joinq'[c]) <= Len(joinq[c])
          /\ sid'[c] \notin {sid[c], NoSocket}
               => sid[c] = NoSocket /\ sid'[c] > conns[c] /\ rooms'[c] = {}
          /\ (rooms'[c] # rooms[c] /\ rooms'[c] # {})
               => rooms[c] = {} /\ rooms'[c] = {sockets[c].role}]_vars

\* A socket has reconnected and its second session has joined the role room.
C27_Witness ==
  \E c \in Clients :
    /\ conns[c] = 2 /\ sid[c] = 2
    /\ sockets[c].state = "connected"
    /\ rooms[c] = {"Administrator"}
    /\ joinq[c] = <<>>

\* C28: at most one client socket is open, it is the one opened for the
\* authenticated user; with no user there is none, isConnected is false, and
\* every event that invoked a handler was received for the user logged in then.
C28_SocketOnlyWhileAuthenticated ==
  /\ Cardinality(OpenSockets) <= 1
  /\ \A c \in OpenSockets : user # null /\ sockets[c].role = user /\ socket = c
  /\ user = null => OpenSockets = {} /\ ~isConnected /\ socket = null
  /\ \A i \in DOMAIN eventLog :
       eventLog[i].invoked # <<>>
         => eventLog[i].user # null /\ eventLog[i].user = sockets[eventLog[i].socket].role

\* Both sessions of a run have ended; a handler was invoked during one of them.
C28_Witness ==
  /\ user = null
  /\ sockets["c1"].state = "closed" /\ sockets["c2"].state = "closed"
  /\ conns["c1"] = 1 /\ conns["c2"] = 1
  /\ \E i \in DOMAIN eventLog : eventLog[i].invoked # <<>>

\* C29: activeSection is users only for an Administrator and settings only for
\* an Administrator or a SOC Manager; hasRole(roles) is true exactly when a
\* user is logged in whose role is in roles.
C29_RestrictedSectionsNeedRole ==
  /\ activeSection = "users" => user = "Administrator"
  /\ activeSection = "settings" => user \in {"Administrator", "SOC Manager"}
  /\ \A roles \in SUBSET Roles : hasRole(roles) <=> (user # null /\ user \in roles)

\* An Administrator is in the users section after an analyst's session ended.
C29_Witness ==
  /\ activeSection = "users"
  /\ user = "Administrator"
  /\ sockets["c1"].role = "SOC Analyst"
  /\ sockets["c1"].state = "closed"

\* C30: a failed login leaves user, cookies and Authorization header as they
\* were; after a successful login or a restore from valid cookies user is
\* non-null and the header carries the token; after logout user is null and
\* the cookies and the header are gone; isAuthenticated iff user is non-null.
C30_AuthStateChangesAtomically ==
  [][/\ (loginPc = "pending" /\ loginPc' = "idle" /\ error' # "")
          => UNCHANGED <<user, cookies, authorization>>
     /\ (loginPc = "pending" /\ loginPc' = "idle" /\ error' = "")
          => /\ user' # null
             /\ cookies'.token # Undefined
             /\ authorization' = Bearer(cookies'.token)
     /\ (isLoading /\ ~isLoading' /\ cookies.token # Undefined
           /\ JsonParse(cookies.userData) \in Roles)
          => user' # null /\ authorization' = Bearer(cookies.token)
     /\ (user # null /\ user' = null)
          => cookies' = NoCookies /\ authorization' = <<>>
     /\ isAuthenticated' <=> user' # null]_vars

\* A login has failed on a page that kept the header of a restored token.
C30_Witness ==
  /\ error # ""
  /\ loginPc = "idle"
  /\ user = null
  /\ authorization # <<>>
  /\ cookies # NoCookies

====
